---- MODULE Spec2Model ----
(***************************************************************************)
(* Model of shufflr/sources.py: the on-disk File (an h5py.File holding     *)
(* keyed datapoints plus three derived tables that are dropped on every    *)
(* write and rebuilt lazily by a full scan), the in-memory Cache over a    *)
(* source, and the LabelBatch and PairedBatch drawn from a source.         *)
(***************************************************************************)
EXTENDS Integers, Sequences, FiniteSets, TLC

VARIABLES h5, tables, _keys, _label_enum, _index_table, ret, hist

\* The File.
vars == <<h5, tables, _keys, _label_enum, _index_table, ret, hist>>

\* A source of (key, datapoint) pairs, the Cache and the batch that pull from
\* it, and the last call made on the Cache or the batch.
VARIABLES source, cache, batch, call

memvars == <<source, cache, batch, call>>
allvars == <<h5, tables, _keys, _label_enum, _index_table, ret, hist,
             source, cache, batch, call>>

(* ------------------------------ bounds --------------------------------- *)
\* Number of distinct well-formed keys that a caller may use.
NumKeys == 3
\* The rebuild counters of hist saturate here.
MaxScans == 2

(* ------------------------------- keys ---------------------------------- *)
KEY_MANIFEST == "__KEY_MANIFEST__"
LABEL_ENUM == "__LABEL_ENUM__"
INDEX_TABLE == "__INDEX_TABLE__"
ReservedKeys == {KEY_MANIFEST, LABEL_ENUM, INDEX_TABLE}

\* The well-formed key with the given integer index.
index_to_key(i) ==
    CASE i = 0 -> "00" [] i = 1 -> "01" [] i = 2 -> "02"
      [] i = 3 -> "03" [] i = 4 -> "04" [] i = 5 -> "05"
      [] i = 6 -> "06" [] OTHER -> "07"

KeyIndices == 0 .. (NumKeys - 1)
KeyLike == {index_to_key(i) : i \in KeyIndices}

\* The indices of all well-formed keys.
AllKeyIndices == 0 .. 7

key_to_index(key) == CHOOSE i \in AllKeyIndices : index_to_key(i) = key

\* keyutils.cleanse: normalise a path by dropping slashes around it.
cleanse(key) ==
    CASE key = "/00" -> "00"
      [] key = "/01" -> "01"
      [] OTHER -> key

\* keyutils.is_keylike: the naming convention of addressable datapoints; a
\* reserved table name or an unnormalised path does not satisfy it.
is_keylike(key) == key \in {index_to_key(i) : i \in AllKeyIndices}

\* Keys a caller may hand to add(), KeyLike being the well-formed ones.
RawKeys == KeyLike \cup {"/00", "not a key", KEY_MANIFEST}
\* Names a caller may hand to get() and remove().
Names == KeyLike \cup {"not a key"} \cup ReservedKeys

(* --------------------------- attribute values -------------------------- *)
Str(s) == [py |-> "str", s |-> s, n |-> 0, seq |-> <<>>]
PyNum(n) == [py |-> "int", s |-> "", n |-> n, seq |-> <<>>]
List(q) == [py |-> "list", s |-> "", n |-> 0, seq |-> q]

\* Python truth value of an attribute value.
Truthy(v) ==
    CASE v.py = "str" -> v.s /= ""
      [] v.py = "list" -> v.seq /= <<>>
      [] OTHER -> v.n /= 0

IsNumeric(v) == v.py \in {"int", "float", "ndarray"}

LabelKeys == {"a", "b"}
\* Iteration order of the labels dictionary of a datapoint.
LabelKeyOrder == <<"a", "b">>

Datapoint(type, value, attrs) == [type |-> type, value |-> value, attrs |-> attrs]

\* The datapoints a caller may add.
Data ==
    { Datapoint("Sample", 0, [k \in {"a", "n"} |->
                                 IF k = "n" THEN PyNum(0) ELSE Str("x")]),
      Datapoint("Sample", 1, [k \in {"a", "b"} |->
                                 IF k = "b" THEN Str("") ELSE Str("y")]),
      Datapoint("Sequence", 1, [k \in {"a", "b"} |->
                                 IF k = "b" THEN List(<<"y">>)
                                 ELSE List(<<"y", "x">>)]),
      Datapoint("Spectrum", 0, [k \in {"a"} |-> Str("x")]) }

NoData == Datapoint("None", 0, [k \in {} |-> Str("")])

\* The labels of a datapoint: its label attributes.
labels(d) == [k \in (DOMAIN d.attrs) \cap LabelKeys |-> d.attrs[k]]

\* utils.partition_attrs: the attributes split into scalar and array valued
\* ones; every attribute is in one of the two parts.
partition_attrs(attrs) == attrs

\* core.Factory / core.Dataset: the datapoint held by an h5py dataset.
Factory(dset) == dset

(* ----------------------------- table codec ----------------------------- *)
\* An integer code as numpy stores it in an array of strings, and back.
NumpyStr(n) ==
    CASE n = 0 -> "0" [] n = 1 -> "1" [] n = 2 -> "2" [] n = 3 -> "3"
      [] n = 4 -> "4" [] n = 5 -> "5" [] n = 6 -> "6" [] OTHER -> "7"

PyInt(s) == CHOOSE n \in 0 .. 7 : NumpyStr(n) = s

EmptyDict == [k \in {} |-> 0]

\* The payload of a reserved dataset.
Table(keys, enum, rows) == [keys |-> keys, enum |-> enum, rows |-> rows]

\* dict(self[LABEL_ENUM].value) with every value passed through int().
DecodeEnum(pairs) ==
    [k \in {p[1] : p \in pairs} |->
        PyInt((CHOOSE p \in pairs : p[1] = k)[2])]

(* ------------------------------ the File ------------------------------- *)
\* `key in self` of the h5py.File.
Contains(key) == key \in (DOMAIN h5) \cup (DOMAIN tables)

Result(op, key, status) ==
    [op |-> op, key |-> key, status |-> status, keys |-> <<>>,
     enum |-> EmptyDict, rows |-> <<>>, item |-> NoData]

Bump(n) == IF n < MaxScans THEN n + 1 ELSE n

\* History kept beside the File: the read-triggered scans since the last add or
\* remove, and the datapoints as the callers handed them to add().
Mutated(added) == [scans |-> 0, added |-> added]

\* The File fields that the table code reads and writes, as one record.
Self == [tables |-> tables, _keys |-> _keys, _label_enum |-> _label_enum,
         _index_table |-> _index_table, err |-> "ok", scans |-> hist.scans]

_clear_local_tables(self) ==
    [self EXCEPT !._keys = <<>>, !._label_enum = EmptyDict,
                 !._index_table = <<>>]

\* As _clear_persistent_tables, but the index table is left in the file.
ClearForgetsIndexTable(self) ==
    [_clear_local_tables(self) EXCEPT !.tables =
        [k \in (DOMAIN self.tables) \cap {INDEX_TABLE} |-> self.tables[k]]]

_clear_persistent_tables(self) ==
    [_clear_local_tables(self) EXCEPT !.tables = [k \in {} |-> Table(<<>>, {}, <<>>)]]

\* As Enumerate, but the codes start at one.
EnumerateFromOne(enum, label) ==
    IF label \in DOMAIN enum THEN enum
    ELSE enum @@ (label :> Cardinality(DOMAIN enum) + 1)

\* Lines 175-176 and 183-184: enumerate a label when it is first met.
Enumerate(enum, label) ==
    IF label \in DOMAIN enum THEN enum
    ELSE enum @@ (label :> Cardinality(DOMAIN enum))

\* The scan state that cache_data updates.
Scan(keys, enum, index_list, err) ==
    [keys |-> keys, enum |-> enum, index_list |-> index_list, err |-> err]

\* As SampleLabels, but a row is appended only for a label not met before.
RECURSIVE SampleLabelsNewOnly(_, _, _, _)
SampleLabelsNewOnly(key, vals, i, st) ==
    IF i > Len(vals) THEN st
    ELSE LET enum == Enumerate(st.enum, vals[i])
         IN SampleLabelsNewOnly(key, vals, i + 1,
                [st EXCEPT !.enum = enum,
                           !.index_list =
                               IF vals[i] \in DOMAIN st.enum THEN @
                               ELSE Append(@, <<key_to_index(key), enum[vals[i]]>>)])

\* Lines 174-179, for the labels of one Sample from position i on.
RECURSIVE SampleLabels(_, _, _, _)
SampleLabels(key, vals, i, st) ==
    IF i > Len(vals) THEN st
    ELSE LET enum == Enumerate(st.enum, vals[i])
         IN SampleLabels(key, vals, i + 1,
                [st EXCEPT !.enum = enum,
                           !.index_list = Append(@, <<key_to_index(key), enum[vals[i]]>>)])

\* Lines 182-188, for one label sequence from element i on.
RECURSIVE SequenceLabels(_, _, _, _)
SequenceLabels(key, label_seq, i, st) ==
    IF i > Len(label_seq) THEN st
    ELSE LET enum == Enumerate(st.enum, label_seq[i])
         IN SequenceLabels(key, label_seq, i + 1,
                [st EXCEPT !.enum = enum,
                           !.index_list = Append(@, <<key_to_index(key), i - 1,
                                                      enum[label_seq[i]]>>)])

\* Lines 181-188, for the label sequences of one Sequence from position i on.
RECURSIVE SequenceSeqs(_, _, _, _)
SequenceSeqs(key, seqs, i, st) ==
    IF i > Len(seqs) THEN st
    ELSE SequenceSeqs(key, seqs, i + 1, SequenceLabels(key, seqs[i], 1, st))

\* labels.values() of a datapoint, in dictionary order.
RECURSIVE LabelValues(_, _)
LabelValues(d, i) ==
    IF i > Len(LabelKeyOrder) THEN <<>>
    ELSE (IF LabelKeyOrder[i] \in DOMAIN labels(d)
          THEN <<labels(d)[LabelKeyOrder[i]]>> ELSE <<>>)
         \o LabelValues(d, i + 1)

ScalarsOf(vals) == [i \in 1 .. Len(vals) |-> vals[i].s]
SeqsOf(vals) == [i \in 1 .. Len(vals) |-> vals[i].seq]

\* As cache_data, but an object of unknown type is listed and passed over.
CacheDataSkipsUnknown(key, obj, st) ==
    IF ~is_keylike(key) THEN st
    ELSE LET st1 == [st EXCEPT !.keys = Append(@, cleanse(key))]
             dset == Factory(obj)
         IN CASE dset.type = "Sample" ->
                    SampleLabels(key, ScalarsOf(LabelValues(dset, 1)), 1, st1)
              [] dset.type = "Sequence" ->
                    SequenceSeqs(key, SeqsOf(LabelValues(dset, 1)), 1, st1)
              [] OTHER -> st1

\* Lines 166-191: the visititems callback for one object of the file.
cache_data(key, obj, st) ==
    IF ~is_keylike(key) THEN st
    ELSE LET st1 == [st EXCEPT !.keys = Append(@, cleanse(key))]
             dset == Factory(obj)
         IN CASE dset.type = "Sample" ->
                    SampleLabels(key, ScalarsOf(LabelValues(dset, 1)), 1, st1)
              [] dset.type = "Sequence" ->
                    SequenceSeqs(key, SeqsOf(LabelValues(dset, 1)), 1, st1)
              [] OTHER -> [st1 EXCEPT !.err = "UnknownKind"]

\* Line 193: visit the objects of the file in name order; stop at a raise.
RECURSIVE visititems(_, _, _)
visititems(file, i, st) ==
    IF i >= NumKeys \/ st.err /= "ok" THEN st
    ELSE visititems(file, i + 1,
            IF index_to_key(i) \in DOMAIN file
            THEN cache_data(index_to_key(i), file[index_to_key(i)], st)
            ELSE st)

\* np.asarray(index_list, dtype=int) raises on rows of unequal length.
Ragged(index_list) ==
    \E i, j \in 1 .. Len(index_list) : Len(index_list[i]) /= Len(index_list[j])

\* Lines 154-199.
create_tables(self, file) ==
    LET cleared == [_clear_persistent_tables(self) EXCEPT !.scans = Bump(@)]
        st == visititems(file, 0, Scan(<<>>, EmptyDict, <<>>, "ok"))
        scanned == [cleared EXCEPT !._keys = st.keys, !._label_enum = st.enum]
    IN  IF st.err /= "ok" THEN [scanned EXCEPT !.err = st.err]
        ELSE IF Ragged(st.index_list) THEN [scanned EXCEPT !.err = "RaggedRows"]
        ELSE [scanned EXCEPT !.tables =
                (INDEX_TABLE :> Table(<<>>, {}, st.index_list))
                @@ (KEY_MANIFEST :> Table(st.keys, {}, <<>>))
                @@ (LABEL_ENUM :> Table(<<>>,
                        {<<k, NumpyStr(st.enum[k])>> : k \in DOMAIN st.enum}, <<>>))]

SetSelf(self) ==
    /\ tables' = self.tables
    /\ _keys' = self._keys
    /\ _label_enum' = self._label_enum
    /\ _index_table' = self._index_table

\* As Lazy, but the read rebuilds whether or not its dataset is there.
LazyAlways(name) == create_tables(Self, h5)

\* The rebuild a read makes when its reserved dataset is missing.
Lazy(name) == IF name \in DOMAIN tables THEN Self ELSE create_tables(Self, h5)

\* Lines 108-121.
keys ==
    LET self == Lazy(KEY_MANIFEST)
        loaded == IF self.err = "ok" /\ self._keys = <<>>
                  THEN [self EXCEPT !._keys = self.tables[KEY_MANIFEST].keys]
                  ELSE self
    IN  /\ SetSelf(loaded)
        /\ hist' = [hist EXCEPT !.scans = loaded.scans]
        /\ ret' = [Result("keys", "", loaded.err) EXCEPT
                      !.keys = IF loaded.err = "ok" THEN loaded._keys ELSE <<>>]
        /\ UNCHANGED h5

\* Lines 123-134.
label_enum ==
    LET self == Lazy(LABEL_ENUM)
        loaded == IF self.err = "ok" /\ DOMAIN self._label_enum = {}
                  THEN [self EXCEPT !._label_enum =
                            DecodeEnum(self.tables[LABEL_ENUM].enum)]
                  ELSE self
    IN  /\ SetSelf(loaded)
        /\ hist' = [hist EXCEPT !.scans = loaded.scans]
        /\ ret' = [Result("label_enum", "", loaded.err) EXCEPT
                      !.enum = IF loaded.err = "ok" THEN loaded._label_enum
                               ELSE EmptyDict]
        /\ UNCHANGED h5

\* Lines 136-152.  _index_table is <<>> for None and <<rows>> otherwise.
index_table ==
    LET self == Lazy(INDEX_TABLE)
        loaded == IF self.err = "ok" /\ self._index_table = <<>>
                  THEN [self EXCEPT !._index_table =
                            <<self.tables[INDEX_TABLE].rows>>]
                  ELSE self
    IN  /\ SetSelf(loaded)
        /\ hist' = [hist EXCEPT !.scans = loaded.scans]
        /\ ret' = [Result("index_table", "", loaded.err) EXCEPT
                      !.rows = IF loaded.err = "ok" THEN loaded._index_table[1]
                               ELSE <<>>]
        /\ UNCHANGED h5

\* A caller's own call of create_tables(); hist.scans counts the scans that
\* reads make, not this one.
CreateTables ==
    LET self == create_tables(Self, h5)
    IN  /\ SetSelf(self)
        /\ ret' = Result("create_tables", "", self.err)
        /\ UNCHANGED <<h5, hist>>

\* As Written, but without the elif branch of line 93.
WrittenNumericOnly(attrs) ==
    LET parts == partition_attrs(attrs)
    IN  [k \in {a \in DOMAIN parts : IsNumeric(parts[a])} |-> parts[k]]

\* Lines 86-94: the attributes that add() copies to the new dataset.
Written(attrs) ==
    LET parts == partition_attrs(attrs)
    IN  [k \in {a \in DOMAIN parts : IsNumeric(parts[a]) \/ Truthy(parts[a])}
            |-> parts[k]]

\* As add, but the tables are not dropped before the dataset is written.
AddKeepsTables(key, data, overwrite) ==
    LET k == cleanse(key)
    IN  IF ~is_keylike(k)
        THEN /\ ret' = Result("add", key, "InvalidKey")
             /\ UNCHANGED <<h5, tables, _keys, _label_enum, _index_table, hist>>
        ELSE /\ UNCHANGED <<tables, _keys, _label_enum, _index_table>>
             /\ IF k \in DOMAIN h5
                THEN /\ ret' = Result("add", key, "NameExists")
                     /\ hist' = Mutated(hist.added)
                     /\ UNCHANGED h5
                ELSE /\ h5' = h5 @@ (k :> Datapoint(data.type, data.value,
                                                    Written(data.attrs)))
                     /\ hist' = Mutated(hist.added @@ (k :> data))
                     /\ ret' = Result("add", key, "ok")

\* As add, but the tables are dropped before the key is checked.
AddClearsFirst(key, data, overwrite) ==
    LET k == cleanse(key)
        self == _clear_persistent_tables(Self)
    IN  /\ SetSelf(self)
        /\ IF ~is_keylike(k)
           THEN /\ ret' = Result("add", key, "InvalidKey")
                /\ UNCHANGED <<h5, hist>>
           ELSE IF k \in DOMAIN h5
           THEN /\ ret' = Result("add", key, "NameExists")
                /\ hist' = Mutated(hist.added)
                /\ UNCHANGED h5
           ELSE /\ h5' = h5 @@ (k :> Datapoint(data.type, data.value,
                                               Written(data.attrs)))
                /\ hist' = Mutated(hist.added @@ (k :> data))
                /\ ret' = Result("add", key, "ok")

\* Lines 64-94.  create_dataset raises when the name is already linked; the
\* overwrite argument is not read.
add(key, data, overwrite) ==
    LET k == cleanse(key)
        self == _clear_persistent_tables(Self)
    IN  IF ~is_keylike(k)
        THEN /\ ret' = Result("add", key, "InvalidKey")
             /\ UNCHANGED <<h5, tables, _keys, _label_enum, _index_table, hist>>
        ELSE /\ SetSelf(self)
             /\ IF k \in DOMAIN h5
                THEN /\ ret' = Result("add", key, "NameExists")
                     /\ hist' = Mutated(hist.added)
                     /\ UNCHANGED h5
                ELSE /\ h5' = h5 @@ (k :> Datapoint(data.type, data.value,
                                                    Written(data.attrs)))
                     /\ hist' = Mutated(hist.added @@ (k :> data))
                     /\ ret' = Result("add", key, "ok")

\* As remove, but the tables are not dropped after the deletion.
RemoveKeepsTables(key) ==
    IF ~Contains(key)
    THEN /\ ret' = Result("remove", key, "NotFound")
         /\ UNCHANGED <<h5, tables, _keys, _label_enum, _index_table, hist>>
    ELSE /\ h5' = [n \in (DOMAIN h5) \ {key} |-> h5[n]]
         /\ tables' = [n \in (DOMAIN tables) \ {key} |-> tables[n]]
         /\ UNCHANGED <<_keys, _label_enum, _index_table>>
         /\ hist' = Mutated([n \in (DOMAIN hist.added) \ {key} |-> hist.added[n]])
         /\ ret' = Result("remove", key, "ok")

\* Lines 96-106.
remove(key) ==
    IF ~Contains(key)
    THEN /\ ret' = Result("remove", key, "NotFound")
         /\ UNCHANGED <<h5, tables, _keys, _label_enum, _index_table, hist>>
    ELSE LET deleted == [Self EXCEPT !.tables =
                            [n \in (DOMAIN tables) \ {key} |-> tables[n]]]
         IN  /\ h5' = [n \in (DOMAIN h5) \ {key} |-> h5[n]]
             /\ SetSelf(_clear_persistent_tables(deleted))
             /\ hist' = Mutated([n \in (DOMAIN hist.added) \ {key} |-> hist.added[n]])
             /\ ret' = Result("remove", key, "ok")

\* Lines 59-62.
get(key) ==
    /\ ret' = IF ~Contains(key) THEN Result("get", key, "NotFound")
              ELSE [Result("get", key, "ok") EXCEPT !.item =
                       IF key \in DOMAIN h5 THEN Factory(h5[key])
                       ELSE Factory(Datapoint("Table", 0, [k \in {} |-> Str("")]))]
    /\ UNCHANGED <<h5, tables, _keys, _label_enum, _index_table, hist>>

\* Lines 29-36: the file is closed and opened again by a new File object.
Reopen ==
    /\ SetSelf(_clear_local_tables(Self))
    /\ ret' = Result("open", "", "ok")
    /\ UNCHANGED <<h5, hist>>

\* No source, Cache or batch has been made.
Absent == [made |-> FALSE]

Init ==
    /\ h5 = [k \in {} |-> NoData]
    /\ tables = [k \in {} |-> Table(<<>>, {}, <<>>)]
    /\ _keys = <<>>
    /\ _label_enum = EmptyDict
    /\ _index_table = <<>>
    /\ ret = Result("open", "", "ok")
    /\ hist = Mutated([k \in {} |-> NoData])
    /\ source = Absent
    /\ cache = Absent
    /\ batch = Absent
    /\ call = Absent

\* The File on its own: nothing is pulled from a source.
Next ==
    \/ UNCHANGED memvars /\ \E key \in RawKeys, data \in Data : add(key, data, FALSE)
    \/ UNCHANGED memvars /\ \E key \in Names : remove(key)
    \/ UNCHANGED memvars /\ \E key \in Names : get(key)
    \/ UNCHANGED memvars /\ keys
    \/ UNCHANGED memvars /\ label_enum
    \/ UNCHANGED memvars /\ index_table
    \/ UNCHANGED memvars /\ CreateTables
    \/ UNCHANGED memvars /\ Reopen

Spec == Init /\ [][Next]_allvars

(* ------------------------- what the reads return ----------------------- *)
TablesPresent == DOMAIN tables = ReservedKeys
TablesAbsent == DOMAIN tables = {}
LocalsEmpty == _keys = <<>> /\ DOMAIN _label_enum = {} /\ _index_table = <<>>

Range(q) == {q[i] : i \in 1 .. Len(q)}

ReadOk(op) == ret.op = op /\ ret.status = "ok"

\* Lines 118-121, 130-134 and 149-152: what a read returns while the tables
\* are in the file.
KeysView == IF _keys /= <<>> THEN _keys ELSE tables[KEY_MANIFEST].keys
EnumView ==
    IF DOMAIN _label_enum /= {} THEN _label_enum
    ELSE DecodeEnum(tables[LABEL_ENUM].enum)
RowsView ==
    IF _index_table /= <<>> THEN _index_table[1] ELSE tables[INDEX_TABLE].rows

\* The labels a stored datapoint carries.
ItemLabels(d) ==
    CASE d.type = "Sample" -> {labels(d)[k].s : k \in DOMAIN labels(d)}
      [] d.type = "Sequence" ->
            UNION {Range(labels(d)[k].seq) : k \in DOMAIN labels(d)}
      [] OTHER -> {}

StoredLabels == UNION {ItemLabels(h5[k]) : k \in DOMAIN h5}

(* -------------------------------- claims ------------------------------- *)

\* C1: whenever keys() returns, the list it returns holds each stored item key
\* exactly once and nothing else; in particular no reserved table name.
C1_KeysExact ==
    ReadOk("keys") =>
        /\ Range(ret.keys) = DOMAIN h5
        /\ Len(ret.keys) = Cardinality(DOMAIN h5)
        /\ Range(ret.keys) \cap ReservedKeys = {}

C1_Witness ==
    /\ ReadOk("keys")
    /\ Cardinality(DOMAIN h5) = 2
    /\ Len(ret.keys) = 2

\* C2: while the tables are in the file, what label_enum(), index_table() and
\* keys() return is consistent with the stored items: every row's label code is
\* a value of the label enumeration, every row's key index is the index of a
\* key of keys() that is still stored, and every enumerated label is carried by
\* a stored item.
C2_TablesConsistent ==
    /\ ReadOk("label_enum") => ret.enum = EnumView
    /\ ReadOk("index_table") => ret.rows = RowsView
    /\ TablesPresent =>
          /\ \A i \in 1 .. Len(RowsView) :
                LET row == RowsView[i]
                IN  /\ row[Len(row)] \in {EnumView[l] : l \in DOMAIN EnumView}
                    /\ index_to_key(row[1]) \in Range(KeysView)
                    /\ index_to_key(row[1]) \in DOMAIN h5
          /\ DOMAIN EnumView \subseteq StoredLabels

C2_Witness ==
    /\ ReadOk("index_table")
    /\ Len(ret.rows) >= 2
    /\ Cardinality(DOMAIN EnumView) = 2

\* C3: the three persistent tables are all absent or all present, and when
\* present they are what a rebuild over the current items writes and every
\* non-empty local copy equals its table; after a successful add or remove
\* all three are absent and the local copies are empty.
C3_AllOrNothing ==
    /\ TablesAbsent \/ TablesPresent
    /\ TablesPresent =>
          /\ tables = create_tables(Self, h5).tables
          /\ _keys = <<>> \/ _keys = tables[KEY_MANIFEST].keys
          /\ DOMAIN _label_enum = {}
                \/ _label_enum = DecodeEnum(tables[LABEL_ENUM].enum)
          /\ _index_table = <<>> \/ _index_table[1] = tables[INDEX_TABLE].rows
    /\ (ret.op \in {"add", "remove"} /\ ret.status = "ok") =>
          TablesAbsent /\ LocalsEmpty

C3_Witness ==
    /\ TablesPresent
    /\ _keys /= <<>>
    /\ _index_table /= <<>>
    /\ Cardinality(DOMAIN h5) = 2

Reads == {"keys", "label_enum", "index_table"}

\* C4 as claimed: between two add/remove calls the reads make at most one
\* rebuild scan.
C4_AtMostOneScan == hist.scans <= 1

\* C4: a read leaves the tables in the file exactly when it returns, and the
\* reads made since the last add/remove call have scanned more than once only
\* if the rebuild fails on the stored items, so that no table is in the file.
C4_OneScanUnlessFailing ==
    /\ ret.op \in Reads => (ret.status = "ok" <=> TablesPresent)
    /\ ret.op \in Reads => (ret.status /= "ok" <=> TablesAbsent)
    /\ hist.scans >= 2 =>
          TablesAbsent /\ create_tables(Self, h5).err /= "ok"

C4_Witness ==
    /\ ReadOk("label_enum")
    /\ hist.scans = 1
    /\ _index_table /= <<>>
    /\ _keys /= <<>>
    /\ DOMAIN h5 /= {}

\* The labels of a datapoint that add() writes: the numeric and the non-empty.
WrittenLabels(d) ==
    [k \in {a \in DOMAIN labels(d) :
                IsNumeric(labels(d)[a]) \/ Truthy(labels(d)[a])} |-> labels(d)[k]]

\* C5 as claimed: get(key) returns the value and the whole label mapping of
\* the datapoint that was added under key.
C5_RoundTrip ==
    (ReadOk("get") /\ ret.key \in DOMAIN hist.added) =>
        /\ ret.item.value = hist.added[ret.key].value
        /\ labels(ret.item) = labels(hist.added[ret.key])

\* C5: get(key) returns the value of the datapoint that was added under key,
\* and its label mapping without the labels whose value is empty (identical
\* when no label value is empty).
C5_RoundTripWritten ==
    (ReadOk("get") /\ ret.key \in DOMAIN hist.added) =>
        /\ ret.item.value = hist.added[ret.key].value
        /\ ret.item.type = hist.added[ret.key].type
        /\ labels(ret.item) = WrittenLabels(hist.added[ret.key])

C5_Witness ==
    /\ ReadOk("get")
    /\ ret.key \in DOMAIN hist.added
    /\ DOMAIN labels(ret.item) = {"a", "b"}
    /\ labels(ret.item) = labels(hist.added[ret.key])

\* C6 as claimed: get(key) fails with NotFound for every key that is not the
\* key of a stored item, the reserved table names included.
C6_GetNotFound ==
    (ret.op = "get" /\ ret.key \notin DOMAIN h5) => ret.status = "NotFound"

\* C7 as claimed: remove(key) of a key that is not a stored item key fails
\* with NotFound and changes neither the items nor the tables; remove(key) of
\* a stored key deletes that item only and leaves no table.
C7_Remove ==
    [][ret'.op = "remove" =>
         IF ret'.key \in DOMAIN h5
         THEN /\ ret'.status = "ok"
              /\ h5' = [n \in (DOMAIN h5) \ {ret'.key} |-> h5[n]]
              /\ TablesAbsent' /\ LocalsEmpty'
         ELSE /\ ret'.status = "NotFound"
              /\ UNCHANGED <<h5, tables, _keys, _label_enum, _index_table>>]_vars

\* C8: add() with a key that is not key-like after cleansing fails with
\* InvalidKey and changes neither the items, the tables nor the local copies;
\* every stored item key is key-like, so none is a reserved name.
C8_InvalidKey ==
    /\ [](DOMAIN h5 \subseteq KeyLike /\ (DOMAIN h5) \cap ReservedKeys = {})
    /\ [][(ret'.op = "add" /\ ~is_keylike(cleanse(ret'.key))) =>
            /\ ret'.status = "InvalidKey"
            /\ UNCHANGED <<h5, tables, _keys, _label_enum, _index_table>>]_vars

C8_Witness ==
    /\ ret.op = "add"
    /\ ret.key = KEY_MANIFEST
    /\ ret.status = "InvalidKey"
    /\ TablesPresent
    /\ DOMAIN h5 /= {}

\* The labels of one datapoint in the order the scan meets them.
RECURSIVE ItemLabelSeq(_, _)
ItemLabelSeq(d, i) ==
    IF i > Len(LabelKeyOrder) THEN <<>>
    ELSE (IF LabelKeyOrder[i] \notin DOMAIN labels(d) THEN <<>>
          ELSE IF d.type = "Sample" THEN <<labels(d)[LabelKeyOrder[i]].s>>
          ELSE IF d.type = "Sequence" THEN labels(d)[LabelKeyOrder[i]].seq
          ELSE <<>>)
         \o ItemLabelSeq(d, i + 1)

\* The labels of the stored datapoints in the order the scan meets them.
RECURSIVE ScanLabels(_)
ScanLabels(i) ==
    IF i >= NumKeys THEN <<>>
    ELSE (IF index_to_key(i) \in DOMAIN h5
          THEN ItemLabelSeq(h5[index_to_key(i)], 1) ELSE <<>>)
         \o ScanLabels(i + 1)

FirstSeen(label) ==
    CHOOSE i \in 1 .. Len(ScanLabels(0)) :
        /\ ScanLabels(0)[i] = label
        /\ \A j \in 1 .. (i - 1) : ScanLabels(0)[j] /= label

\* C9: the label enumeration written by a rebuild maps the distinct labels of
\* the stored items one-to-one onto 0 .. n-1, a label met earlier in the scan
\* having the smaller code; the local copy and label_enum() agree with it.
C9_EnumBijection ==
    TablesPresent =>
        LET enum == DecodeEnum(tables[LABEL_ENUM].enum)
            n == Cardinality(StoredLabels)
        IN  /\ Cardinality(tables[LABEL_ENUM].enum) = n
            /\ DOMAIN enum = StoredLabels
            /\ {enum[l] : l \in DOMAIN enum} = 0 .. (n - 1)
            /\ \A l1, l2 \in DOMAIN enum :
                    enum[l1] < enum[l2] <=> FirstSeen(l1) < FirstSeen(l2)
            /\ DOMAIN _label_enum /= {} => _label_enum = enum
            /\ ReadOk("label_enum") => ret.enum = enum

C9_Witness ==
    /\ ReadOk("label_enum")
    /\ DOMAIN ret.enum = {"x", "y"}
    /\ ret.enum["y"] = 0
    /\ ret.enum["x"] = 1
    /\ Cardinality(DOMAIN h5) = 2

\* What a row of the index table stands for: a label key of a Sample, or an
\* element of the label sequence under a label key of a Sequence.
SampleSources ==
    UNION {{<<k, lk>> : lk \in DOMAIN labels(h5[k])} :
              k \in {k \in DOMAIN h5 : h5[k].type = "Sample"}}

SequenceSources ==
    UNION {UNION {{<<k, lk, p>> : p \in 1 .. Len(labels(h5[k])[lk].seq)} :
                     lk \in DOMAIN labels(h5[k])} :
              k \in {k \in DOMAIN h5 : h5[k].type = "Sequence"}}

RowOf(src, enum) ==
    IF Len(src) = 2
    THEN <<key_to_index(src[1]), enum[labels(h5[src[1]])[src[2]].s]>>
    ELSE <<key_to_index(src[1]), src[3] - 1,
           enum[labels(h5[src[1]])[src[2]].seq[src[3]]]>>

Count(rows, r) == Cardinality({i \in 1 .. Len(rows) : rows[i] = r})

\* C10: the index table written by a rebuild has one row for every label key
\* of every Sample and one row for every element of every label sequence of
\* every Sequence, each with the key index, the element position for a
\* Sequence, and the code of the label; it has no other row.
C10_RowsExact ==
    TablesPresent =>
        LET rows == tables[INDEX_TABLE].rows
            enum == DecodeEnum(tables[LABEL_ENUM].enum)
            sources == SampleSources \cup SequenceSources
        IN  /\ Len(rows) = Cardinality(sources)
            /\ Range(rows) = {RowOf(src, enum) : src \in sources}
            /\ \A r \in Range(rows) :
                    Count(rows, r)
                      = Cardinality({src \in sources : RowOf(src, enum) = r})
            /\ ReadOk("index_table") => ret.rows = rows

\* Three Samples labelled x, y, x: three rows, two with the code of x.
C10_Witness ==
    /\ ReadOk("index_table")
    /\ DOMAIN h5 = {"00", "01", "02"}
    /\ \A k \in DOMAIN h5 : h5[k].type = "Sample"
    /\ labels(h5["00"])["a"].s = "x"
    /\ labels(h5["01"])["a"].s = "y"
    /\ labels(h5["02"])["a"].s = "x"
    /\ Len(ret.rows) = 3
    /\ Cardinality({i \in 1 .. 3 : ret.rows[i][2] = EnumView["x"]}) = 2
    /\ Cardinality({i \in 1 .. 3 : ret.rows[i][2] = EnumView["y"]}) = 1

(* ------------------------------ the source ----------------------------- *)
\* The most items a source holds.
MaxItems == 3

\* The labels of the items of a source, in the order it yields them: a source
\* holds a prefix of one of these.
Mixed == <<"x", "x", "y", "y", "x", "y", "x", "y">>
Lone == <<"x", "y", "y", "y", "y", "y", "y", "y">>
Single == <<"x", "x", "x", "x", "x", "x", "x", "x">>

\* A source of n items: one pass over them, or an endless cycle through them.
Source(lbls, cyclic) ==
    [made |-> TRUE, labels |-> lbls, cyclic |-> cyclic, pos |-> 0]

Sources(patterns, sizes, cyclic) ==
    { Source(SubSeq(pat, 1, n), cyclic) : pat \in patterns, n \in sizes }

num_items(src) == Len(src.labels)

\* The i-th (key, item) pair of a source; label_key "a" carries the label.
SourceItem(src, i) ==
    <<index_to_key(i - 1),
      Datapoint("Sample", i - 1, [k \in {"a"} |-> Str(src.labels[i])])>>

SourceKeys == {index_to_key(i) : i \in 0 .. (MaxItems - 1)}

\* source.next(): the next pair, or the exhaustion failure of a one-pass
\* source whose items have all been pulled.
next(src) ==
    IF ~src.cyclic /\ src.pos >= num_items(src)
    THEN [err |-> "SourceExhausted", pair |-> <<"", NoData>>, source |-> src]
    ELSE [err |-> "ok", pair |-> SourceItem(src, src.pos + 1),
          source |-> [src EXCEPT !.pos =
                         IF src.cyclic THEN (@ + 1) % num_items(src) ELSE @ + 1]]

(* ------------------------------ the Cache ------------------------------ *)
\* The largest cache_size a Cache is made with.
MaxCache == 2

\* Probabilities are in percent; NoneP is the absent argument p=None.
NoneP == -1
\* The values of p a caller passes, and the refresh_prob a Cache is made with.
CallProbs == {NoneP, 0, 100}
RefreshProbs == {25, 100}

\* The outcomes np.random.binomial(1, p) can have.
Binomial(p) == IF p = 0 THEN {0} ELSE IF p = 100 THEN {1} ELSE {0, 1}

\* dict assignment self[k] = v.
SetItem(items, k, v) ==
    [x \in (DOMAIN items) \cup {k} |-> IF x = k THEN v ELSE items[x]]

\* del self[key].
DelItem(items, key) == [x \in (DOMAIN items) \ {key} |-> items[x]]

\* A Cache or batch together with its source while a method runs: err is the
\* exception raised so far, pulled the keys source.next() has returned.
Running(obj, src) == [self |-> obj, source |-> src, err |-> "ok", pulled |-> <<>>]

\* Lines 229-236.
Cache_clear_tables(self) ==
    [self EXCEPT !._keys = <<>>, !._label_enum = EmptyDict, !._index_table = <<>>]

\* Lines 299-305: one pull and one insertion at a time, until source.next()
\* raises.
RECURSIVE Cache_load(_, _)
Cache_load(st, n) ==
    IF n <= 0 \/ st.err /= "ok" THEN st
    ELSE LET nx == next(st.source)
         IN IF nx.err /= "ok" THEN [st EXCEPT !.err = nx.err]
            ELSE Cache_load(
                    [st EXCEPT !.self.items = SetItem(@, nx.pair[1], nx.pair[2]),
                               !.source = nx.source,
                               !.pulled = Append(@, nx.pair[1])],
                    n - 1)

\* Lines 307-310: del raises KeyError for a key that is not resident.
Cache_remove(st, key) ==
    IF st.err /= "ok" THEN st
    ELSE IF key \notin DOMAIN st.self.items THEN [st EXCEPT !.err = "NotFound"]
    ELSE [st EXCEPT !.self = Cache_clear_tables(
                                 [st.self EXCEPT !.items = DelItem(@, key)])]

\* As EffectiveP, but a zero p falls back to the default as None does.
EffectivePFalsy(self, p) == IF p = NoneP \/ p = 0 THEN self._refresh_prob ELSE p

\* Lines 292-293.
EffectiveP(self, p) == IF p = NoneP THEN self._refresh_prob ELSE p

\* As Cache_refresh, but the new item is loaded before the key is removed.
RefreshLoadsFirst(st, key, p, draw) ==
    IF draw = 1 THEN Cache_remove(Cache_load(st, 1), key) ELSE st

\* Lines 290-297, for one outcome of the draw.
Cache_refresh(st, key, p, draw) ==
    IF draw = 1 THEN Cache_load(Cache_remove(st, key), 1) ELSE st

\* Lines 208-227.  The stored _refresh_prob is the argument; the clamped
\* branch assigns its zero to the local name only.
Cache_init(src, cache_size, refresh_prob) ==
    LET self == [made |-> TRUE, items |-> [k \in {} |-> NoData],
                 _refresh_prob |-> refresh_prob,
                 _keys |-> <<>>, _label_enum |-> EmptyDict, _index_table |-> <<>>,
                 cache_size |-> cache_size]
        size == IF num_items(src) < cache_size THEN num_items(src) ELSE cache_size
        st == Cache_load(Running(self, src), size)
    IN [st EXCEPT !.self = Cache_clear_tables(@)]

\* Lines 252-272, for one resident item.
Cache_visit(key, obj, st) ==
    IF ~is_keylike(key) THEN st
    ELSE CASE obj.type = "Sample" ->
                  SampleLabels(key, ScalarsOf(LabelValues(Factory(obj), 1)), 1, st)
           [] obj.type = "Sequence" ->
                  SequenceSeqs(key, SeqsOf(LabelValues(obj, 1)), 1, st)
           [] OTHER -> [st EXCEPT !.err = "UnknownKind"]

\* Line 252: self.iteritems(), taken in key order; stops at a raise.
RECURSIVE Cache_iteritems(_, _, _)
Cache_iteritems(items, i, st) ==
    IF i \notin AllKeyIndices \/ st.err /= "ok" THEN st
    ELSE Cache_iteritems(items, i + 1,
            IF index_to_key(i) \in DOMAIN items
            THEN Cache_visit(index_to_key(i), items[index_to_key(i)], st)
            ELSE st)

\* Lines 238-273.  _label_enum is filled in place; _index_table is assigned
\* after the loop.
Cache_create_tables(st) ==
    LET sc == Cache_iteritems(st.self.items, 0, Scan(<<>>, EmptyDict, <<>>, "ok"))
        cleared == Cache_clear_tables(st.self)
    IN [st EXCEPT !.err = sc.err,
                  !.self = [cleared EXCEPT
                               !._label_enum = sc.enum,
                               !._index_table =
                                   IF sc.err = "ok" THEN sc.index_list ELSE <<>>]]

\* Lines 275-278.
Cache_label_enum(st) ==
    IF DOMAIN st.self._label_enum = {} THEN Cache_create_tables(st) ELSE st

\* Lines 280-283.
Cache_index_table(st) ==
    IF Len(st.self._index_table) = 0 THEN Cache_create_tables(st) ELSE st

\* The last call on a Cache or a batch: its arguments, the outcome of its
\* random draw, the exception it raised and the keys it pulled.
Call(op, key, p, draw, n, st) ==
    [made |-> TRUE, op |-> op, key |-> key, p |-> p, draw |-> draw, n |-> n,
     status |-> st.err, pulled |-> st.pulled]

\* The Cache and its source after a method has run.
CacheDone(st) ==
    /\ cache' = st.self
    /\ source' = st.source

CacheRefresh ==
    \E key \in SourceKeys, p \in CallProbs :
        \E draw \in Binomial(EffectiveP(cache, p)) :
            LET st == Cache_refresh(Running(cache, source), key, p, draw)
            IN  /\ CacheDone(st)
                /\ call' = Call("refresh", key, p, draw, 0, st)

\* Lines 285-288: choice() raises IndexError on an empty Cache.
CacheRefreshRand ==
    \E p \in CallProbs :
        IF DOMAIN cache.items = {}
        THEN /\ call' = Call("refresh_rand", "", p, 0, 0,
                             [Running(cache, source) EXCEPT !.err = "IndexError"])
             /\ UNCHANGED <<cache, source>>
        ELSE \E key \in DOMAIN cache.items :
             \E draw \in Binomial(EffectiveP(cache, p)) :
                LET st == Cache_refresh(Running(cache, source), key, p, draw)
                IN  /\ CacheDone(st)
                    /\ call' = Call("refresh_rand", key, p, draw, 0, st)

CacheLoad ==
    \E n \in 1 .. 2 :
        LET st == Cache_load(Running(cache, source), n)
        IN  /\ CacheDone(st)
            /\ call' = Call("load", "", NoneP, 0, n, st)

CacheRemove ==
    \E key \in SourceKeys :
        LET st == Cache_remove(Running(cache, source), key)
        IN  /\ CacheDone(st)
            /\ call' = Call("remove", key, NoneP, 0, 0, st)

CacheLabelEnum ==
    LET st == Cache_label_enum(Running(cache, source))
    IN  /\ CacheDone(st)
        /\ call' = Call("label_enum", "", NoneP, 0, 0, st)

CacheIndexTable ==
    LET st == Cache_index_table(Running(cache, source))
    IN  /\ CacheDone(st)
        /\ call' = Call("index_table", "", NoneP, 0, 0, st)

\* A Cache made over a fresh source.
CacheInit ==
    /\ Init!1 /\ Init!2 /\ Init!3 /\ Init!4 /\ Init!5 /\ Init!6 /\ Init!7
    /\ batch = Absent
    /\ \E src \in Sources({Mixed}, 1 .. MaxItems, TRUE)
                      \cup Sources({Mixed}, 1 .. MaxItems, FALSE),
          cache_size \in 1 .. MaxCache,
          refresh_prob \in RefreshProbs :
          LET st == Cache_init(src, cache_size, refresh_prob)
          IN  /\ cache = st.self
              /\ source = st.source
              /\ call = Call("Cache", "", refresh_prob, 0, cache_size, st)

CacheNext ==
    \/ UNCHANGED <<vars, batch>> /\ CacheRefresh
    \/ UNCHANGED <<vars, batch>> /\ CacheRefreshRand
    \/ UNCHANGED <<vars, batch>> /\ CacheLoad
    \/ UNCHANGED <<vars, batch>> /\ CacheRemove
    \/ UNCHANGED <<vars, batch>> /\ CacheLabelEnum
    \/ UNCHANGED <<vars, batch>> /\ CacheIndexTable

CacheSpec == CacheInit /\ [][CacheNext]_allvars

(* ------------------------- claims about the Cache ---------------------- *)
\* The Cache was made with a cache_size above the number of source items.
Fits == cache.cache_size > num_items(source)

Refreshes == {"refresh", "refresh_rand"}

Size(items) == Cardinality(DOMAIN items)

\* C11: a Cache made over a source with num_items < cache_size holds
\* exactly num_items items once constructed, and every refresh and
\* refresh_rand on it, with the default p or an explicit one, leaves the
\* resident set and the source untouched.
C11_FitsNeverReplaces ==
    [][Fits =>
         /\ call.op = "Cache" => Size(cache.items) = num_items(source)
         /\ call'.op \in Refreshes =>
               cache'.items = cache.items /\ source' = source]_allvars

\* The Cache was made with a cache_size below the number of source items.
Bounded == cache.cache_size < num_items(source)

\* C12: on a Cache made with cache_size < num_items, every refresh(key, p=1.0)
\* and every refresh_rand drawing with probability 1.0 that returns has
\* evicted exactly one item and loaded exactly one, and the size of the
\* resident set is what it was.
C12_RefreshSwapsOne ==
    [][(/\ Bounded
        /\ call'.op \in Refreshes
        /\ EffectiveP(cache, call'.p) = 100
        /\ call'.status = "ok")
       => /\ Len(call'.pulled) = 1
          /\ call'.key \in DOMAIN cache.items
          /\ DOMAIN cache'.items =
                ((DOMAIN cache.items) \ {call'.key}) \cup {call'.pulled[1]}
          /\ Size(cache'.items) = Size(cache.items)]_allvars

\* C13: refresh(key, p=0.0) never evicts: the resident set, the derived
\* tables and the position of the source are what they were, whatever key is
\* named and whatever probability the Cache was made with.
C13_ZeroNeverEvicts ==
    [][(call'.op = "refresh" /\ call'.p = 0)
       => cache' = cache /\ source' = source /\ call'.status = "ok"
          /\ call'.pulled = <<>>]_allvars

\* refresh(key, p=0.0) was called on a resident key of a Cache that holds
\* derived tables, was made with refresh_prob 1.0 and has items left to pull.
C13_Witness ==
    /\ call.op = "refresh" /\ call.p = 0
    /\ call.key \in DOMAIN cache.items
    /\ cache._refresh_prob = 100
    /\ DOMAIN cache._label_enum /= {}
    /\ Len(cache._index_table) > 0
    /\ next(source).err = "ok"

\* C14: refresh(key, p) fails with NotFound whenever key is not resident,
\* for every p and every outcome of the draw; the resident set is unchanged
\* and nothing is pulled.
C14_NotFoundAlways ==
    [][(call'.op = "refresh" /\ call'.key \notin DOMAIN cache.items)
       => /\ call'.status = "NotFound"
          /\ cache'.items = cache.items
          /\ source' = source]_allvars

\* C14, amended: refresh(key, p) on a key that is not resident fails with
\* NotFound exactly when the draw succeeds, and returns without an error when
\* it does not; either way the resident set is unchanged and nothing is
\* pulled.
C14_NotFoundOnDraw ==
    [][(call'.op = "refresh" /\ call'.key \notin DOMAIN cache.items)
       => /\ call'.status = (IF call'.draw = 1 THEN "NotFound" ELSE "ok")
          /\ cache'.items = cache.items
          /\ source' = source
          /\ call'.pulled = <<>>]_allvars

\* refresh failed with NotFound on a key that is not resident while the
\* source had an item to give.
C14_Witness ==
    /\ call.op = "refresh" /\ call.status = "NotFound"
    /\ call.key \notin DOMAIN cache.items
    /\ cache.items /= <<>>
    /\ next(source).err = "ok"

\* C15: load(n) is all-or-nothing: when the source is exhausted before n
\* pulls complete, the call fails with SourceExhausted and the resident set
\* is exactly what it was before the call.
C15_LoadAllOrNothing ==
    [][(call'.op = "load" /\ call'.status = "SourceExhausted")
       => cache'.items = cache.items]_allvars

\* The labels of the items resident in the Cache.
ResidentLabels == {cache.items[k].attrs["a"].s : k \in DOMAIN cache.items}

\* C16: whatever loads, removes and refreshes came before, label_enum()
\* enumerates exactly the labels of the items now resident, and index_table()
\* has exactly one row per resident item, giving its index and the code of its
\* label.
C16_TablesCurrent ==
    /\ (call.op = "label_enum" /\ call.status = "ok")
       => DOMAIN cache._label_enum = ResidentLabels
    /\ (call.op = "index_table" /\ call.status = "ok")
       => /\ Len(cache._index_table) = Size(cache.items)
          /\ \A k \in DOMAIN cache.items :
                \E i \in 1 .. Len(cache._index_table) :
                   /\ cache._index_table[i][1] = key_to_index(k)
                   /\ cache.items[k].attrs["a"].s \in DOMAIN cache._label_enum
                   /\ cache._index_table[i][2] =
                         cache._label_enum[cache.items[k].attrs["a"].s]

(* --------------------------- add with overwrite ------------------------ *)
\* The File when every add is made with overwrite=True.
OverwriteNext ==
    \/ UNCHANGED memvars /\ \E key \in KeyLike, data \in Data : add(key, data, TRUE)
    \/ UNCHANGED memvars /\ \E key \in KeyLike : remove(key)
    \/ UNCHANGED memvars /\ \E key \in KeyLike : get(key)

OverwriteSpec == Init /\ [][OverwriteNext]_allvars

\* C17: add(key, data, overwrite=True) on a key that is already stored
\* succeeds and leaves data, and nothing else, stored under key.
C17_OverwriteReplaces ==
    [][(ret'.op = "add" /\ ret'.key \in DOMAIN h5)
       => /\ ret'.status = "ok"
          /\ DOMAIN h5' = DOMAIN h5
          /\ h5'[ret'.key].value = hist'.added[ret'.key].value]_allvars

(* ------------------------ LabelBatch and PairedBatch ------------------- *)
\* The largest batch_size, and the most items of the one-pass and of the
\* cyclic sources a batch pulls from.
MaxBatch == 4
MaxPass == 6
MaxCycle == 2

\* OrderedDict.update with one pair: a new key goes to the end, a key that
\* is there keeps its place and takes the new value.
Update(od, k, v) ==
    IF \E i \in 1 .. Len(od) : od[i][1] = k
    THEN [i \in 1 .. Len(od) |-> IF od[i][1] = k THEN <<k, v>> ELSE od[i]]
    ELSE Append(od, <<k, v>>)

\* Lines 316-321; _idx_A and _idx_B are <<>> until _pair assigns them.
Batch_init(batch_size, paired) ==
    [made |-> TRUE, paired |-> paired, _batch_size |-> batch_size, od |-> <<>>,
     _idx_A |-> <<>>, _idx_B |-> <<>>]

\* Lines 334-341.
RECURSIVE LabelBatch_load(_, _)
LabelBatch_load(st, n) ==
    IF n <= 0 \/ st.err /= "ok" THEN st
    ELSE LET nx == next(st.source)
         IN IF nx.err /= "ok" THEN [st EXCEPT !.err = nx.err]
            ELSE LabelBatch_load(
                    [st EXCEPT !.self.od = Update(@, nx.pair[1], nx.pair[2]),
                               !.source = nx.source,
                               !.pulled = Append(@, nx.pair[1])],
                    n - 1)

\* As LabelBatch_refresh, but the batch is not cleared first.
RefreshKeepsItems(st) == LabelBatch_load(st, st.self._batch_size)

\* Lines 323-325.
LabelBatch_refresh(st) ==
    LabelBatch_load([st EXCEPT !.self.od = <<>>], st.self._batch_size)

\* Lines 331-332, with label_key "a".
Batch_labels(self) == [i \in 1 .. Len(self.od) |-> self.od[i][2].attrs["a"].s]

\* As PosCandidates, but the anchor stays among its own candidates.
PosWithAnchor(lbls, y_idx) ==
    {i \in 0 .. (Len(lbls) - 1) : lbls[i + 1] = lbls[y_idx + 1]}

\* Line 367, with remove(y_idx) of line 368: the positions, from 0, that carry
\* the label of the anchor, the anchor left out.
PosCandidates(lbls, y_idx) ==
    {i \in 0 .. (Len(lbls) - 1) : lbls[i + 1] = lbls[y_idx + 1]} \ {y_idx}

\* As NegCandidates, but the positions that carry the label of the anchor.
NegSameLabel(lbls, y_idx) ==
    {i \in 0 .. (Len(lbls) - 1) : lbls[i + 1] = lbls[y_idx + 1]}

\* Line 374: the positions that carry another label than the anchor.
NegCandidates(lbls, y_idx) ==
    {i \in 0 .. (Len(lbls) - 1) : lbls[i + 1] /= lbls[y_idx + 1]}

\* The index lists while _pair runs, and the exception raised so far.
Pairing(A, B, err) == [A |-> A, B |-> B, err |-> err]

\* Lines 366-370 or 373-376, once: every anchor randint can draw and every
\* partner choice can pick.  The anchor is appended before choice raises
\* IndexError on an empty candidate list.
Draw(outs, lbls, positive) ==
    UNION { IF o.err /= "ok" THEN {o}
            ELSE UNION {
                LET cand == IF positive THEN PosCandidates(lbls, y_idx)
                            ELSE NegCandidates(lbls, y_idx)
                IN  IF cand = {}
                    THEN {Pairing(Append(o.A, y_idx), o.B, "PairingInfeasible")}
                    ELSE {Pairing(Append(o.A, y_idx), Append(o.B, b), "ok") :
                            b \in cand}
                : y_idx \in 0 .. (Len(lbls) - 1) }
          : o \in outs }

\* Lines 365 and 372: one pass of n draws.
RECURSIVE Pass(_, _, _, _)
Pass(outs, lbls, positive, n) ==
    IF n = 0 THEN outs ELSE Pass(Draw(outs, lbls, positive), lbls, positive, n - 1)

\* As _pair, but the pass over different-label pairs is left out.
PairPositiveOnly(lbls, batch_size) ==
    Pass({Pairing(<<>>, <<>>, "ok")}, lbls, TRUE, batch_size \div 2)

\* Lines 361-380: the index lists _pair can leave.  Lines 378-380 cut both
\* to the shorter one, which is their common length when no draw failed.
_pair(lbls, batch_size) ==
    Pass(Pass({Pairing(<<>>, <<>>, "ok")}, lbls, TRUE, batch_size \div 2),
         lbls, FALSE, batch_size \div 2)

\* Lines 353-355: 1.0 where the paired labels are equal, 0.0 elsewhere.
equals(self) ==
    [i \in 1 .. Len(self._idx_A) |->
        IF Batch_labels(self)[self._idx_A[i] + 1] = Batch_labels(self)[self._idx_B[i] + 1]
        THEN 1 ELSE 0]

BatchDone(st) ==
    /\ batch' = st.self
    /\ source' = st.source
    /\ call' = Call("Batch.refresh", "", NoneP, 0, st.self._batch_size, st)

\* LabelBatch.refresh, lines 323-325.
LabelBatchRefresh ==
    /\ ~batch.paired
    /\ BatchDone(LabelBatch_refresh(Running(batch, source)))

\* PairedBatch.refresh, lines 357-359: _pair runs when the load has not
\* raised.
PairedBatchRefresh ==
    /\ batch.paired
    /\ LET st == LabelBatch_refresh(Running(batch, source))
       IN  IF st.err /= "ok" THEN BatchDone(st)
           ELSE \E o \in _pair(Batch_labels(st.self), st.self._batch_size) :
                   BatchDone([st EXCEPT !.self._idx_A = o.A,
                                        !.self._idx_B = o.B,
                                        !.err = o.err])

\* The sources a batch pulls from.
BatchSources ==
    Sources({Mixed, Lone, Single}, 1 .. MaxPass, FALSE)
    \cup Sources({Mixed, Lone, Single}, 1 .. MaxCycle, TRUE)

\* A LabelBatch or a PairedBatch made over a fresh source.
BatchInit ==
    /\ Init!1 /\ Init!2 /\ Init!3 /\ Init!4 /\ Init!5 /\ Init!6 /\ Init!7
    /\ cache = Absent
    /\ \E src \in BatchSources, batch_size \in 1 .. MaxBatch, paired \in BOOLEAN :
          /\ source = src
          /\ batch = Batch_init(batch_size, paired)
          /\ call = Call("Batch", "", NoneP, 0, batch_size, Running(batch, src))

BatchNext ==
    \/ UNCHANGED <<vars, cache>> /\ LabelBatchRefresh
    \/ UNCHANGED <<vars, cache>> /\ PairedBatchRefresh

BatchSpec == BatchInit /\ [][BatchNext]_allvars

(* ----------------------- claims about the batches ---------------------- *)
\* The keys of a pull sequence in the order they were first pulled.
RECURSIVE FirstPulls(_)
FirstPulls(pulled) ==
    IF pulled = <<>> THEN <<>>
    ELSE LET front == FirstPulls(SubSeq(pulled, 1, Len(pulled) - 1))
             k == pulled[Len(pulled)]
         IN IF k \in Range(front) THEN front ELSE Append(front, k)

\* The item the source holds under a key.
ItemOf(src, key) == SourceItem(src, key_to_index(key) + 1)[2]

BatchKeys(self) == [i \in 1 .. Len(self.od) |-> self.od[i][1]]

\* C18: a LabelBatch or PairedBatch is empty until its first refresh; after
\* every refresh that succeeds, exactly batch_size items were pulled, and the
\* batch holds the items pulled in that refresh and no others, in the order
\* they were first pulled, which is at most batch_size entries.
C18_RebuiltFromEmpty ==
    /\ call.op = "Batch" => batch.od = <<>>
    /\ (call.op = "Batch.refresh" /\ call.status = "ok")
       => /\ Len(call.pulled) = batch._batch_size
          /\ BatchKeys(batch) = FirstPulls(call.pulled)
          /\ Len(batch.od) <= batch._batch_size
          /\ \A i \in 1 .. Len(batch.od) :
                batch.od[i][2] = ItemOf(source, batch.od[i][1])

\* A second refresh has succeeded on a source that has yielded other keys
\* before, and a key came twice in this refresh.
C18_Witness ==
    /\ call.op = "Batch.refresh" /\ call.status = "ok"
    /\ Len(batch.od) < batch._batch_size
    /\ batch.od /= <<>>
    /\ batch.od[1][1] /= "00"

\* How many positions of the batch carry a label.
Members(lbls, label) == Cardinality({i \in 1 .. Len(lbls) : lbls[i] = label})

\* Every label of the batch has at least 2 members and there are at least 2
\* labels.
Balanced(lbls) ==
    /\ \A i \in 1 .. Len(lbls) : Members(lbls, lbls[i]) >= 2
    /\ Cardinality(Range(lbls)) >= 2

\* A PairedBatch refresh has got as far as pairing.
Paired ==
    /\ call.op = "Batch.refresh" /\ batch.paired
    /\ call.status \in {"ok", "PairingInfeasible"}

\* C19: after PairedBatch.refresh() on a batch in which every label has at
\* least 2 members and at least 2 labels exist, equals() has 2 * (batch_size
\* div 2) positions, is 1.0 on the first batch_size div 2 of them and 0.0 on
\* the rest, whatever was drawn.
C19_EqualsHalves ==
    (Paired /\ call.status = "ok" /\ Balanced(Batch_labels(batch)))
    => LET half == batch._batch_size \div 2
       IN  /\ Len(batch._idx_A) = 2 * half
           /\ Len(batch._idx_B) = 2 * half
           /\ \A i \in 1 .. half : equals(batch)[i] = 1
           /\ \A i \in (half + 1) .. (2 * half) : equals(batch)[i] = 0

\* A PairedBatch of two "x" and two "y" items has been paired, an anchor
\* having been drawn twice.
C19_Witness ==
    /\ Paired /\ call.status = "ok"
    /\ Batch_labels(batch) = <<"x", "x", "y", "y">>
    /\ equals(batch) = <<1, 1, 0, 0>>
    /\ batch._idx_A[1] = batch._idx_A[3]

\* The i-th anchor drawn had no candidate: in the positive pass its label
\* occurs once in the batch, in the negative pass the batch has one label.
Infeasible(self, i) ==
    IF i <= self._batch_size \div 2
    THEN Members(Batch_labels(self), Batch_labels(self)[self._idx_A[i] + 1]) = 1
    ELSE Cardinality(Range(Batch_labels(self))) = 1

\* C20: a PairedBatch refresh whose load succeeded fails with
\* PairingInfeasible exactly when an anchor it drew had no candidate; on a
\* batch in which every label has at least 2 members and at least 2 labels
\* exist it never fails so.
C20_InfeasibleExactly ==
    Paired
    => /\ call.status = "PairingInfeasible"
          <=> \E i \in 1 .. Len(batch._idx_A) : Infeasible(batch, i)
       /\ Balanced(Batch_labels(batch)) => call.status = "ok"

\* Pairing has failed in the negative pass, after both positive pairs were
\* found in a batch of one label.
C20_Witness ==
    /\ Paired /\ call.status = "PairingInfeasible"
    /\ Len(batch._idx_A) = 3 /\ Len(batch._idx_B) = 2
    /\ batch._batch_size = 4
    /\ Cardinality(Range(Batch_labels(batch))) = 1

\* C21: after every successful PairedBatch.refresh(), _idx_A and _idx_B both
\* have 2 * (batch_size div 2) entries, and every entry of both is a position
\* of the batch, from 0 up to but not including the number of items it holds.
C21_IndicesValid ==
    (Paired /\ call.status = "ok")
    => /\ Len(batch._idx_A) = 2 * (batch._batch_size \div 2)
       /\ Len(batch._idx_B) = 2 * (batch._batch_size \div 2)
       /\ \A i \in 1 .. Len(batch._idx_A) :
             batch._idx_A[i] \in 0 .. (Len(batch.od) - 1)
       /\ \A i \in 1 .. Len(batch._idx_B) :
             batch._idx_B[i] \in 0 .. (Len(batch.od) - 1)

\* A PairedBatch of odd batch_size has been paired, the last position of
\* the batch being among the anchors.
C21_Witness ==
    /\ Paired /\ call.status = "ok"
    /\ batch._batch_size = 3
    /\ Len(batch.od) = 3
    /\ Len(batch._idx_A) = 2
    /\ batch._idx_A[2] = 2

\* C22: when PairedBatch.refresh() fails with PairingInfeasible, _idx_A and
\* _idx_B still have equal length: no anchor is left without its partner.
C22_PairingAllOrNothing ==
    (Paired /\ call.status = "PairingInfeasible")
    => Len(batch._idx_A) = Len(batch._idx_B)

(* ------------------- a File with an item of unknown kind --------------- *)
\* The stored keys whose item is neither a Sample nor a Sequence.
UnknownKeys(file) ==
    {k \in DOMAIN file : file[k].type \notin {"Sample", "Sequence"}}

Rebuilds == Reads \cup {"create_tables"}

\* C23 as claimed: while the File holds an item of unknown kind, every read
\* and every rebuild fails with UnknownKind, writes none of the three
\* persistent tables and leaves the local key list, label enumeration and
\* index table empty.
C23_UnknownKindAllOrNothing ==
    [][(UnknownKeys(h5') /= {} /\ ret'.op \in Rebuilds)
       => /\ ret'.status = "UnknownKind"
          /\ TablesAbsent'
          /\ LocalsEmpty']_allvars

\* C23: while the File holds an item of unknown kind, every read and every
\* rebuild fails with UnknownKind and none of the three persistent tables
\* is written, so the next read scans and fails again; the local key list is
\* left holding the keys visited up to and including the first such item.
C23_UnknownKindFails ==
    [][(UnknownKeys(h5') /= {} /\ ret'.op \in Rebuilds)
       => /\ ret'.status = "UnknownKind"
          /\ ret'.keys = <<>> /\ ret'.rows = <<>> /\ DOMAIN ret'.enum = {}
          /\ TablesAbsent'
          /\ _index_table' = <<>>
          /\ Range(_keys') =
                {k \in DOMAIN h5' :
                    \E u \in UnknownKeys(h5') :
                       /\ key_to_index(k) <= key_to_index(u)
                       /\ \A w \in UnknownKeys(h5') :
                             key_to_index(u) <= key_to_index(w)}]_allvars

\* A read has failed with UnknownKind for the second time since the last
\* write, on a File that also holds a labelled Sample before the unknown item.
C23_Witness ==
    /\ ret.op \in Reads /\ ret.status = "UnknownKind"
    /\ hist.scans = 2
    /\ Len(_keys) = 2
    /\ DOMAIN _label_enum /= {}
    /\ Cardinality(DOMAIN h5) = 3

(* ----------------------- pairs and exhausted sources ------------------- *)
\* C24: in every pair that PairedBatch pairing has produced the two
\* positions differ: _idx_A[i] /= _idx_B[i] wherever both are set.
C24_PairsDiffer ==
    (batch.made /\ batch.paired)
    => \A i \in 1 .. Len(batch._idx_B) : batch._idx_A[i] /= batch._idx_B[i]

\* Same-label and different-label pairs have been made in a batch where an
\* anchor shares its label with one other item only.
C24_Witness ==
    /\ Paired /\ call.status = "ok"
    /\ Batch_labels(batch) = <<"x", "x", "y">>
    /\ batch._idx_A = <<0, 2>>
    /\ batch._idx_B = <<1, 0>>

\* C25: when the source cannot supply a replacement, refresh(key, p=1.0)
\* fails with SourceExhausted and leaves key resident: the resident set is
\* what it was before the call.
C25_RefreshAtomic ==
    [][(call'.op = "refresh" /\ call'.p = 100
        /\ call'.key \in DOMAIN cache.items
        /\ next(source).err = "SourceExhausted")
       => /\ call'.status = "SourceExhausted"
          /\ call'.key \in DOMAIN cache'.items
          /\ Size(cache'.items) = Size(cache.items)]_allvars

====
